---- MODULE Spec2Model ----
(***************************************************************************)
(* dexcli: one invocation of the command line front-end (src/dexcli/cli.py) *)
(* against an exchange connector whose answers are nondeterministic.        *)
(*                                                                          *)
(* Decimal quantities (amount, price, contracts, P&L) are integers counted  *)
(* in the smallest unit; an optional value (Python None / an absent dict    *)
(* key) is the empty sequence and a present value v is <<v>>.  A text line  *)
(* is the sequence of the pieces its f-string concatenates.                 *)
(***************************************************************************)
EXTENDS Integers, Sequences, FiniteSets, TLC

VARIABLES
    pc,         \* where the invocation stands: idle, fetched, confirm, closing, done
    argv,       \* the parsed command line (or the client call) being served
    log,        \* in order: connector calls, stdout/stderr writes, prompts
    position,   \* close's local `position` (cli.py:299), optional
    ret,        \* the outcome of the client call the command is handling or ended
                \* with: the connector's answers, the exception, the return value
    exitCode    \* process exit status, NoExit while running

vars == <<pc, argv, log, position, ret, exitCode>>

----------------------------------------------------------------------------
(* Bounds of the model *)

MaxPositions == 2
MaxOrders == 2
MaxMarkets == 52

(* Input domains *)

None == <<>>
Some(v) == <<v>>
NoExit == -1

Symbols == {"BTC/USDT", "ETH/USDT"}
Sides == {"buy", "sell"}
OrderTypes == {"market", "limit"}
Statuses == {"open", "closed", "all"}
Formats == {"table", "json"}
MarketTypes == {"spot", "swap", "future"}
Quotes == {"USDT", "USDC"}
Amounts == {-1, 0, 2}
Prices == {None, Some(-1), Some(0), Some(3)}
\* an order id is the sequence of its characters (the tables slice it)
ShortId == <<"a", "b", "c", "1", "2", "3">>
LongId == <<"0", "1", "2", "3", "4", "5", "6", "7", "8", "9", "a", "b", "c", "d", "e", "f">>
OrderIds == {ShortId, LongId}
ExchangeMessages == {"network down", "insufficient margin"}

PositionSides == {"long", "short"}
ContractSizes == {-2, 0, 1}
Pnls == {None, Some(5)}
PositionRecords ==
    { [symbol |-> s, side |-> d, contracts |-> c, unrealizedPnl |-> u] :
        s \in Symbols, d \in PositionSides, c \in ContractSizes, u \in Pnls }

OrderRecords ==
    { [id |-> ShortId, symbol |-> "BTC/USDT", type |-> "market", side |-> "buy",
       amount |-> 2, filled |-> 2, price |-> None, status |-> "closed",
       timestamp |-> 1000],
      [id |-> LongId, symbol |-> "ETH/USDT", type |-> "limit",
       side |-> "sell", amount |-> 2, filled |-> 0, price |-> Some(3),
       status |-> "open", timestamp |-> 2000] }

SeqsUpTo(S, n) == UNION { [1..k -> S] : k \in 0..n }

PositionLists == SeqsUpTo(PositionRecords, MaxPositions)
OrderLists == SeqsUpTo(OrderRecords, MaxOrders)

----------------------------------------------------------------------------
(* Helpers *)

Abs(x) == IF x < 0 THEN -x ELSE x

Min(a, b) == IF a < b THEN a ELSE b

Take(s, n) == SubSeq(s, 1, Min(Len(s), n))

Zeros(n) == IF n = 2 THEN "00" ELSE "0000"

\* f"{x:.2f}" / f"{x:.4f}" of a whole number of units
Fixed(x, places) == ToString(x) \o "." \o Zeros(places)

\* dict.get(key, default) on an optional field
Get(field, default) == IF field = None THEN default ELSE field[1]

\* datetime.fromtimestamp(ms / 1000).strftime('%Y-%m-%d %H:%M:%S'): the second
LocalTime(ms) == "t+" \o ToString(ms \div 1000) \o "s"

Contains(text, piece) == \E i \in DOMAIN text : text[i] = piece

----------------------------------------------------------------------------
(* Exceptions and the exchange connector *)

ValueError(msg) == [kind |-> "ValueError", msg |-> msg]
RuntimeError(msg) == [kind |-> "RuntimeError", msg |-> msg]
ExchangeError(msg) == [kind |-> "ExchangeError", msg |-> msg]

\* What the connector answers to one call: a value, or a failure message.
Answer(val) == [ok |-> TRUE, val |-> val, msg |-> ""]
Failure(msg) == [ok |-> FALSE, val |-> None, msg |-> msg]
Failures == { Failure(m) : m \in ExchangeMessages }

CallEvent(method, args, ok) == [ev |-> "call", method |-> method, args |-> args, ok |-> ok]
Out(text) == [ev |-> "out", text |-> text]
Err(text) == [ev |-> "err", text |-> text]
Table(rows) == [ev |-> "table", rows |-> rows]
Json(data) == [ev |-> "json", data |-> data]
Prompt(text, answer) == [ev |-> "prompt", text |-> text, answer |-> answer]

\* The outcome of a piece of client code: the connector calls it made, the
\* values the connector answered, the exception it raised (optional) and the
\* value it returned (optional).
Returned(calls, got, val) == [calls |-> calls, got |-> got, exc |-> None, val |-> Some(val)]
Raised(calls, got, e) == [calls |-> calls, got |-> got, exc |-> Some(e), val |-> None]

\* self.exchange.<method>(args), answered by resp
Invoke(method, args, resp) ==
    IF resp.ok
    THEN Returned(<<CallEvent(method, args, TRUE)>>, <<resp.val>>, resp.val)
    ELSE Raised(<<CallEvent(method, args, FALSE)>>, <<>>, ExchangeError(<<resp.msg>>))

\* except Exception as e: raise RuntimeError(f"<prefix>{str(e)}")
ExceptReraise(prefix, r) ==
    IF r.exc = None THEN r
    ELSE Raised(r.calls, r.got, RuntimeError(<<prefix>> \o r.exc[1].msg))

OrderArgs(symbol, type, side, amount, price, params) ==
    [symbol |-> symbol, type |-> type, side |-> side, amount |-> amount,
     price |-> price, params |-> params]

----------------------------------------------------------------------------
(* DEXCLIClient *)

\* create_order without the check of line 58
create_order_unchecked(symbol, side, order_type, amount, price, resp) ==
    ExceptReraise("Failed to create order: ",
        Invoke("create_order",
               OrderArgs(symbol, order_type, side, amount, price, None), resp))

create_order(symbol, side, order_type, amount, price, resp) ==
    ExceptReraise("Failed to create order: ",
        IF order_type = "limit" /\ price = None
        THEN Raised(<<>>, <<>>, ValueError(<<"Price is required for limit orders">>))
        ELSE Invoke("create_order",
                    OrderArgs(symbol, order_type, side, amount, price, None), resp))

cancel_order(order_id, symbol, resp) ==
    ExceptReraise("Failed to cancel order: ",
        Invoke("cancel_order", [id |-> order_id, symbol |-> symbol], resp))

get_order_status(order_id, symbol, resp) ==
    ExceptReraise("Failed to fetch order status: ",
        Invoke("fetch_order", [id |-> order_id, symbol |-> symbol], resp))

\* list_orders that ignores status
list_orders_open_only(symbol, status, resp) ==
    ExceptReraise("Failed to fetch orders: ",
        Invoke("fetch_open_orders", [symbol |-> symbol], resp))

list_orders(symbol, status, resp) ==
    ExceptReraise("Failed to fetch orders: ",
        IF status = "open" THEN Invoke("fetch_open_orders", [symbol |-> symbol], resp)
        ELSE IF status = "closed" THEN Invoke("fetch_closed_orders", [symbol |-> symbol], resp)
        ELSE Invoke("fetch_orders", [symbol |-> symbol], resp))

get_positions(resp) ==
    ExceptReraise("Failed to fetch positions: ",
        Invoke("fetch_positions", [symbols |-> None], resp))

\* the closing amount without abs()
ClosingAmountSigned(pos) == pos.contracts

\* contracts = abs(position['contracts'])
ClosingAmount(pos) == Abs(pos.contracts)

\* side = 'sell' if position['side'] == 'long' else 'buy'
ClosingSide(pos) == IF pos.side = "long" THEN "sell" ELSE "buy"

close_position(symbol, reduce_only, fetched, resp) ==
    ExceptReraise("Failed to close position: ",
        LET f == Invoke("fetch_positions", [symbols |-> Some(<<symbol>>)], fetched)
        IN  IF f.exc # None THEN f
            ELSE LET positions == f.val[1]
                 IN  IF positions = <<>>
                     THEN Raised(f.calls, f.got,
                                 ValueError(<<"No open position found for ", symbol>>))
                     ELSE LET pos == positions[1]
                              contracts == ClosingAmount(pos)
                              side == ClosingSide(pos)
                              o == Invoke("create_order",
                                          OrderArgs(symbol, "market", side, contracts, None,
                                                    Some([reduceOnly |-> reduce_only])),
                                          resp)
                          IN  [o EXCEPT !.calls = f.calls \o @, !.got = f.got \o @])

get_open_orders(symbol, resp) ==
    ExceptReraise("Failed to fetch open orders: ",
        Invoke("fetch_open_orders", [symbol |-> Some(symbol)], resp))

list_markets(resp) ==
    ExceptReraise("Failed to fetch markets: ",
        Invoke("fetch_markets", [symbols |-> None], resp))

----------------------------------------------------------------------------
(* Commands *)

\* what a command keeps of a client call's outcome
Outcome(r) == [got |-> r.got, exc |-> r.exc, val |-> r.val]
NoOutcome == [got |-> <<>>, exc |-> None, val |-> None]

Init ==
    /\ pc = "idle"
    /\ argv = [cmd |-> "none"]
    /\ log = <<>>
    /\ position = None
    /\ ret = NoOutcome
    /\ exitCode = NoExit

\* except Exception as e: click.echo(f"Error: {str(e)}", err=True); sys.exit(1)
ErrorExit(r) == <<Err(<<"Error: ">> \o r.exc[1].msg)>>

\* a command that reports the exception and still exits 0 (no sys.exit(1))
FinishExitZero(r, shown) ==
    /\ ret' = Outcome(r)
    /\ pc' = "done"
    /\ exitCode' = 0
    /\ log' = log \o r.calls \o (IF r.exc # None THEN ErrorExit(r) ELSE shown)

\* A command whose whole body runs in one step: the client call r, then on
\* success the lines `shown`; on an exception the error line and exit code 1.
Finish(r, shown) ==
    /\ ret' = Outcome(r)
    /\ pc' = "done"
    /\ IF r.exc # None
       THEN /\ log' = log \o r.calls \o ErrorExit(r)
            /\ exitCode' = 1
       ELSE /\ log' = log \o r.calls \o shown
            /\ exitCode' = 0

Create(symbol, side, type, amount, price, resp) ==
    /\ pc = "idle"
    /\ argv' = [cmd |-> "create", symbol |-> symbol, side |-> side, type |-> type,
                amount |-> amount, price |-> price]
    /\ LET r == create_order(symbol, side, type, amount, price, resp)
           order == r.val[1]
       IN  Finish(r, << Out(<<"Order created successfully!">>),
                        Out(<<"Order ID: ">> \o order.id),
                        Out(<<"Status: ", order.status>>),
                        Json(order) >>)
    /\ UNCHANGED position

Cancel(order_id, symbol, resp) ==
    /\ pc = "idle"
    /\ argv' = [cmd |-> "cancel", order_id |-> order_id, symbol |-> symbol]
    /\ LET r == cancel_order(order_id, symbol, resp)
       IN  Finish(r, << Out(<<"Order ">> \o order_id \o <<" cancelled successfully!">>),
                        Json(r.val[1]) >>)
    /\ UNCHANGED position

Status(order_id, symbol, resp) ==
    /\ pc = "idle"
    /\ argv' = [cmd |-> "status", order_id |-> order_id, symbol |-> symbol]
    /\ LET r == get_order_status(order_id, symbol, resp)
           order == r.val[1]
       IN  Finish(r, << Out(<<"Order Status: ", order.status>>),
                        Out(<<"Type: ", order.type>>),
                        Out(<<"Side: ", order.side>>),
                        Out(<<"Amount: ", ToString(order.amount)>>),
                        Out(<<"Filled: ", ToString(order.filled)>>) >>
                     \o (IF Get(order.price, 0) # 0
                         THEN <<Out(<<"Price: ", ToString(order.price[1])>>)>>
                         ELSE <<>>)
                     \o << Out(<<"Created: ", LocalTime(order.timestamp)>>) >>)
    /\ UNCHANGED position

\* one row of the orders table
OrderRow(order) ==
    << Take(order.id, 8) \o <<"...">>, order.symbol, order.type, order.side,
       Fixed(order.amount, 4), Fixed(order.filled, 4),
       IF order.price = None THEN "N/A" ELSE ToString(order.price[1]),
       order.status, LocalTime(order.timestamp) >>

\* one row of the get-open-orders table
OpenOrderRow(order) ==
    << IF Len(order.id) > 12 THEN Take(order.id, 12) \o <<"...">> ELSE order.id,
       order.type, order.side, Fixed(order.amount, 4), Fixed(order.filled, 4),
       IF order.price = None THEN "N/A" ELSE ToString(order.price[1]),
       order.status, LocalTime(order.timestamp) >>

Orders(symbol, status, format, resp) ==
    /\ pc = "idle"
    /\ argv' = [cmd |-> "orders", symbol |-> symbol, status |-> status, format |-> format]
    /\ LET r == list_orders(symbol, status, resp)
           orders_list == r.val[1]
       IN  Finish(r, IF orders_list = <<>> THEN << Out(<<"No orders found.">>) >>
                     ELSE IF format = "json" THEN << Json(orders_list) >>
                     ELSE << Table([i \in DOMAIN orders_list |-> OrderRow(orders_list[i])]) >>)
    /\ UNCHANGED position

GetOpenOrders(symbol, format, resp) ==
    /\ pc = "idle"
    /\ argv' = [cmd |-> "get_open_orders", symbol |-> symbol, format |-> format]
    /\ LET r == get_open_orders(symbol, resp)
           orders_list == r.val[1]
       IN  Finish(r, IF orders_list = <<>>
                     THEN << Out(<<"No open orders found for ", symbol>>) >>
                     ELSE IF format = "json" THEN << Json(orders_list) >>
                     ELSE << Table([i \in DOMAIN orders_list |-> OpenOrderRow(orders_list[i])]),
                             Out(<<"\nTotal open orders: ", ToString(Len(orders_list))>>) >>)
    /\ UNCHANGED position

\* the open-position test written as "contracts > 0"
IsOpenPositive(p) == p.contracts > 0

IsOpen(p) == p.contracts # 0

\* [p for p in positions_list if p['contracts'] != 0]
OpenPositions(positions_list) == SelectSeq(positions_list, IsOpen)

\* one row of the positions table (the price and margin columns, which no
\* modelled field feeds, are left out)
PositionRow(pos) ==
    << pos.symbol, pos.side, Fixed(pos.contracts, 4),
       Fixed(Get(pos.unrealizedPnl, 0), 2) >>

Positions(format, resp) ==
    /\ pc = "idle"
    /\ argv' = [cmd |-> "positions", format |-> format]
    /\ LET r == get_positions(resp)
           open_positions == OpenPositions(r.val[1])
       IN  Finish(r, IF open_positions = <<>> THEN << Out(<<"No open positions found.">>) >>
                     ELSE IF format = "json" THEN << Json(open_positions) >>
                     ELSE << Table([i \in DOMAIN open_positions |->
                                        PositionRow(open_positions[i])]) >>)
    /\ UNCHANGED position

\* the search without the "contracts != 0" condition
FindPositionAnySize(positions, symbol) ==
    LET hits == SelectSeq(positions, LAMBDA p : p.symbol = symbol)
    IN  IF hits = <<>> THEN None ELSE Some(hits[1])

\* next((p for p in positions if p['symbol'] == symbol and p['contracts'] != 0), None)
FindPosition(positions, symbol) ==
    LET hits == SelectSeq(positions, LAMBDA p : p.symbol = symbol /\ p.contracts # 0)
    IN  IF hits = <<>> THEN None ELSE Some(hits[1])

\* the position details shown before the confirmation
Echo(pos) ==
    << Out(<<"Position to close:">>),
       Out(<<"Symbol: ", pos.symbol>>),
       Out(<<"Side: ", pos.side>>),
       Out(<<"Contracts: ", ToString(pos.contracts)>>),
       Out(<<"Unrealized PnL: ", Fixed(Get(pos.unrealizedPnl, 0), 2)>>) >>

\* close, first round trip: client.get_positions()
CloseGet(symbol, confirm, resp) ==
    /\ pc = "idle"
    /\ argv' = [cmd |-> "close", symbol |-> symbol, confirm |-> confirm]
    /\ LET r == get_positions(resp)
       IN  /\ ret' = Outcome(r)
           /\ IF r.exc # None
              THEN /\ log' = log \o r.calls \o ErrorExit(r)
                   /\ exitCode' = 1
                   /\ pc' = "done"
              ELSE /\ log' = log \o r.calls
                   /\ pc' = "fetched"
                   /\ UNCHANGED exitCode
    /\ UNCHANGED position

\* close, on the fetched list: pick the position to close and show it, or
\* report that there is none; the list is not used again
ClosePick ==
    /\ pc = "fetched"
    /\ LET found == FindPosition(ret.val[1], argv.symbol)
       IN  IF found = None
           THEN /\ log' = Append(log, Out(<<"No open position found for ", argv.symbol>>))
                /\ exitCode' = 0
                /\ pc' = "done"
                /\ UNCHANGED <<position, ret>>
           ELSE /\ log' = log \o Echo(found[1])
                /\ position' = found
                /\ ret' = NoOutcome
                /\ pc' = IF argv.confirm THEN "closing" ELSE "confirm"
                /\ UNCHANGED exitCode
    /\ UNCHANGED argv

\* a confirmation whose answer is not looked at: anything but an abort goes on
CloseConfirmAnyAnswer(answer) ==
    /\ pc = "confirm"
    /\ LET asked == Prompt("Are you sure you want to close this position?", answer)
       IN  IF answer \in {"yes", "no"}
           THEN /\ log' = Append(log, asked)
                /\ pc' = "closing"
                /\ UNCHANGED exitCode
           ELSE /\ log' = log \o <<asked, Err(<<"Error: ">>)>>
                /\ pc' = "done"
                /\ exitCode' = 1
    /\ UNCHANGED <<argv, position, ret>>

\* click.confirm(...): the user answers yes or no, or the input ends (click
\* raises Abort, a RuntimeError with an empty message)
CloseConfirm(answer) ==
    /\ pc = "confirm"
    /\ LET asked == Prompt("Are you sure you want to close this position?", answer)
       IN  CASE answer = "yes" ->
                  /\ log' = Append(log, asked)
                  /\ pc' = "closing"
                  /\ UNCHANGED exitCode
             [] answer = "no" ->
                  /\ log' = log \o <<asked, Out(<<"Cancelled.">>)>>
                  /\ pc' = "done"
                  /\ exitCode' = 0
             [] OTHER ->
                  /\ log' = log \o <<asked, Err(<<"Error: ">>)>>
                  /\ pc' = "done"
                  /\ exitCode' = 1
    /\ UNCHANGED <<argv, position, ret>>

\* close, after the confirmation: client.close_position(symbol) and its report
CloseSubmit(fetched, resp) ==
    /\ pc = "closing"
    /\ LET r == close_position(argv.symbol, TRUE, fetched, resp)
           order == r.val[1]
       IN  Finish(r, << Out(<<"Position closed successfully!">>),
                        Out(<<"Order ID: ">> \o order.id),
                        Out(<<"Status: ", order.status>>) >>)
    /\ UNCHANGED <<argv, position>>

\* DEXCLIClient.close_position called by a program, which may override reduce_only
ClientClosePosition(symbol, reduce_only, fetched, resp) ==
    /\ pc = "idle"
    /\ argv' = [cmd |-> "client.close_position", symbol |-> symbol,
                reduce_only |-> reduce_only]
    /\ LET r == close_position(symbol, reduce_only, fetched, resp)
       IN  /\ ret' = Outcome(r)
           /\ log' = log \o r.calls
    /\ pc' = "done"
    /\ UNCHANGED <<position, exitCode>>

CapRows == 50

\* the active / type / quote filters of the markets command
FilterMarkets(markets_list, active, type, quote) ==
    LET a == IF active THEN SelectSeq(markets_list, LAMBDA m : Get(m.active, TRUE))
             ELSE markets_list
        t == IF type # None THEN SelectSeq(a, LAMBDA m : m.type = type) ELSE a
    IN  IF quote # None THEN SelectSeq(t, LAMBDA m : m.quote = quote) ELSE t

MarketRow(market) ==
    << market.symbol, Get(market.type, "N/A"), Get(market.quote, "N/A"),
       IF Get(market.active, TRUE) THEN "yes" ELSE "no" >>

\* the table with the notice also printed at exactly CapRows markets
MarketsTableOffByOne(markets_list) ==
    << Table([i \in 1..Min(Len(markets_list), CapRows) |-> MarketRow(markets_list[i])]) >>
    \o (IF Len(markets_list) >= CapRows
        THEN << Out(<<"\n... and ", ToString(Len(markets_list) - CapRows), " more markets">>) >>
        ELSE <<>>)

\* the table of the markets command and its remainder notice
MarketsTable(markets_list) ==
    << Table([i \in 1..Min(Len(markets_list), CapRows) |-> MarketRow(markets_list[i])]) >>
    \o (IF Len(markets_list) > CapRows
        THEN << Out(<<"\n... and ", ToString(Len(markets_list) - CapRows), " more markets">>) >>
        ELSE <<>>)

Markets(active, type, quote, format, resp) ==
    /\ pc = "idle"
    /\ argv' = [cmd |-> "markets", active |-> active, type |-> type, quote |-> quote,
                format |-> format]
    /\ LET r == list_markets(resp)
           markets_list == FilterMarkets(r.val[1], active, type, quote)
       IN  Finish(r, IF markets_list = <<>>
                     THEN << Out(<<"No markets found matching the criteria.">>) >>
                     ELSE IF format = "json" THEN << Json(markets_list) >>
                     ELSE MarketsTable(markets_list))
    /\ UNCHANGED position

\* info reads attributes of the connector object and calls nothing
Info(has) ==
    /\ pc = "idle"
    /\ argv' = [cmd |-> "info"]
    /\ log' = log \o << Out(<<"Rate Limit: ", "Enabled">>),
                        Out(<<"Has CORS: ", ToString(has)>>),
                        Out(<<"\nAvailable Features:">>),
                        Out(<<IF has THEN "yes" ELSE "no", "Create Order">>) >>
    /\ exitCode' = 0
    /\ pc' = "done"
    /\ UNCHANGED <<position, ret>>

\* The market lists the connector may answer with: n markets, all alike
\* (shape 1) or cycling through types, quotes and active flags (shape 2).
MarketAt(i, shape) ==
    IF shape = 1
    THEN [symbol |-> "M" \o ToString(i), type |-> Some("swap"), quote |-> Some("USDT"),
          active |-> Some(TRUE)]
    ELSE [symbol |-> "M" \o ToString(i),
          type |-> IF i % 3 = 0 THEN Some("spot")
                   ELSE IF i % 3 = 1 THEN Some("swap") ELSE Some("future"),
          quote |-> IF i % 2 = 0 THEN Some("USDT") ELSE Some("USDC"),
          active |-> IF i % 4 = 0 THEN None
                     ELSE IF i % 4 = 2 THEN Some(FALSE) ELSE Some(TRUE)]

MarketLists == { [i \in 1..n |-> MarketAt(i, shape)] : n \in 0..MaxMarkets, shape \in 1..2 }

\* fetch_positions([symbol]) answers with positions of that symbol
PositionListsOf(symbol) ==
    { l \in PositionLists : \A i \in DOMAIN l : l[i].symbol = symbol }

\* What the connector may answer to each kind of call
OrderAnswers == { Answer(o) : o \in OrderRecords } \cup Failures
OrderListAnswers == { Answer(l) : l \in OrderLists } \cup Failures
PositionListAnswers == { Answer(l) : l \in PositionLists } \cup Failures
MarketListAnswers == { Answer(l) : l \in MarketLists } \cup Failures
PositionsOfAnswers(symbol) == { Answer(l) : l \in PositionListsOf(symbol) } \cup Failures
CancelAnswers(order_id) == { Answer([id |-> order_id, status |-> "canceled"]) } \cup Failures

Optional(S) == {None} \cup { Some(x) : x \in S }

\* Idle: no command line has been parsed yet.  Each disjunct is one command
\* line parsed by click (or one direct use of the client) with the answers
\* the connector gives it, or the next step of close.
Idle == pc = "idle"

Next ==
    \/ Idle /\ \E symbol \in Symbols, side \in Sides, type \in OrderTypes,
                  amount \in Amounts, price \in Prices, resp \in OrderAnswers :
                    Create(symbol, side, type, amount, price, resp)
    \/ Idle /\ \E order_id \in OrderIds, symbol \in Symbols :
                  \E resp \in CancelAnswers(order_id) : Cancel(order_id, symbol, resp)
    \/ Idle /\ \E order_id \in OrderIds, symbol \in Symbols, resp \in OrderAnswers :
                    Status(order_id, symbol, resp)
    \/ Idle /\ \E symbol \in Optional(Symbols), status \in Statuses, format \in Formats,
                  resp \in OrderListAnswers :
                    Orders(symbol, status, format, resp)
    \/ Idle /\ \E symbol \in Symbols, format \in Formats, resp \in OrderListAnswers :
                    GetOpenOrders(symbol, format, resp)
    \/ Idle /\ \E format \in Formats, resp \in PositionListAnswers :
                    Positions(format, resp)
    \/ Idle /\ \E symbol \in Symbols, confirm \in BOOLEAN, resp \in PositionListAnswers :
                    CloseGet(symbol, confirm, resp)
    \/ ClosePick
    \/ pc = "confirm" /\ \E answer \in {"yes", "no", "abort"} : CloseConfirm(answer)
    \/ pc = "closing" /\ \E fetched \in PositionsOfAnswers(argv.symbol),
                            resp \in OrderAnswers :
                              CloseSubmit(fetched, resp)
    \/ Idle /\ \E symbol \in Symbols, reduce_only \in BOOLEAN :
                  \E fetched \in PositionsOfAnswers(symbol), resp \in OrderAnswers :
                    ClientClosePosition(symbol, reduce_only, fetched, resp)
    \/ Idle /\ \E active \in BOOLEAN, type \in Optional(MarketTypes),
                  quote \in Optional(Quotes), format \in Formats,
                  resp \in MarketListAnswers :
                    Markets(active, type, quote, format, resp)
    \/ Idle /\ \E has \in BOOLEAN : Info(has)

Spec == Init /\ [][Next]_vars

----------------------------------------------------------------------------
(* Properties *)

IsCall(e, method) == e.ev = "call" /\ e.method = method

Calls == SelectSeq(log, LAMBDA e : e.ev = "call")

OrdersSubmitted == SelectSeq(log, LAMBDA e : IsCall(e, "create_order"))

Count(x, seq) == Cardinality({ i \in DOMAIN seq : seq[i] = x })

ErrorLines == SelectSeq(log, LAMBDA e : e.ev = "err")

\* C1: a create request with type=limit and no price ends with exit code 1
\* and an error line containing "Price is required for limit orders", and
\* the connector is never called (in particular not create_order).
C1_LimitOrderNeedsPrice ==
    (argv.cmd = "create" /\ argv.type = "limit" /\ argv.price = None) =>
        /\ pc = "done"
        /\ exitCode = 1
        /\ Len(ErrorLines) = 1
        /\ Contains(ErrorLines[1].text, "Price is required for limit orders")
        /\ Calls = <<>>

C1_Witness ==
    /\ argv.cmd = "create" /\ argv.type = "limit" /\ argv.price = None
    /\ argv.amount > 0
    /\ exitCode = 1

\* close_position ran and its fetch answered with at least one position
ClosePositionFound ==
    /\ pc = "done"
    /\ \/ argv.cmd = "client.close_position"
       \/ argv.cmd = "close" /\ position # None /\ ret # NoOutcome
    /\ ret.got # <<>>
    /\ ret.got[1] # <<>>

\* C2: close_position on a long position of size S submits exactly one
\* market order, side sell, amount |S|; on a short position side buy, amount
\* |S|; the order carries reduceOnly = TRUE unless the caller passed
\* reduce_only = FALSE (only a direct caller of the client can).
C2_ClosePositionCounterOrder ==
    ClosePositionFound =>
        LET pos == ret.got[1][1]
            S == pos.contracts
            reduce == IF argv.cmd = "close" THEN TRUE ELSE argv.reduce_only
            o == OrdersSubmitted
        IN  /\ Len(o) = 1
            /\ o[1].args.symbol = argv.symbol
            /\ o[1].args.type = "market"
            /\ pos.side = "long" => o[1].args.side = "sell"
            /\ pos.side = "short" => o[1].args.side = "buy"
            /\ o[1].args.amount >= 0
            /\ o[1].args.amount * o[1].args.amount = S * S
            /\ o[1].args.params = Some([reduceOnly |-> reduce])

C2_Witness ==
    /\ ClosePositionFound
    /\ argv.cmd = "client.close_position" /\ ~argv.reduce_only
    /\ ret.got[1][1].side = "long" /\ ret.got[1][1].contracts < 0
    /\ Len(OrdersSubmitted) = 1
    /\ OrdersSubmitted[1].args.side = "sell"
    /\ OrdersSubmitted[1].args.amount = 2

\* C3: the positions command renders, as a table or as json, exactly the
\* records of the connector's answer whose contract size is nonzero (each as
\* often as it was answered, none of size 0); with no such record it prints
\* "No open positions found."; either way it exits 0.
C3_PositionsShowsExactlyOpen ==
    (argv.cmd = "positions" /\ pc = "done" /\ ret.exc = None) =>
        LET input == ret.got[1]
            shown == log[Len(log)]
            json == argv.format = "json"
        IN  /\ exitCode = 0
            /\ Len(log) = 2
            /\ IF \A i \in DOMAIN input : input[i].contracts = 0
               THEN shown = Out(<<"No open positions found.">>)
               ELSE /\ shown.ev = (IF json THEN "json" ELSE "table")
                    /\ LET items == IF json THEN shown.data ELSE shown.rows
                       IN  \A rec \in PositionRecords :
                             Count(IF json THEN rec ELSE PositionRow(rec), items)
                               = IF rec.contracts = 0 THEN 0 ELSE Count(rec, input)

C3_Witness ==
    /\ argv.cmd = "positions" /\ pc = "done" /\ ret.exc = None
    /\ argv.format = "table"
    /\ Len(ret.got[1]) = 2
    /\ ret.got[1][1].contracts = 0
    /\ ret.got[1][2].contracts < 0
    /\ log[Len(log)].ev = "table"
    /\ Len(log[Len(log)].rows) = 1


FailedCalls == { i \in DOMAIN log : log[i].ev = "call" /\ ~log[i].ok }

\* a failed connector call is reported and ends the command
FailureReported ==
    \A i \in FailedCalls :
        /\ \A j \in DOMAIN log : j > i => log[j].ev # "call"
        /\ exitCode = 1
        /\ log[Len(log)].ev = "err"
        /\ log[Len(log)].text[1] = "Error: "
        /\ \E m \in ExchangeMessages : Contains(log[Len(log)].text, m)

\* C4 as stated: a failed connector call is reported as "Error: <message>" with
\* exit code 1 and no further call, and a command whose connector calls (it
\* made some) all succeed exits with code 0.
C4_AllCallsSucceedExitsZero ==
    (pc = "done" /\ exitCode # NoExit) =>
        /\ FailureReported
        /\ (Calls # <<>> /\ FailedCalls = {}) => exitCode = 0

\* C4, amended: a failed connector call is reported as "Error: <message>"
\* with exit code 1 and no further call; a command exits 1 exactly when it
\* prints an error line and 0 otherwise; with no failed call the error is one
\* the program found itself: a limit order without price, no position for
\* close_position to close, or an aborted confirmation prompt.
C4_ErrorsExitOne ==
    (pc = "done" /\ exitCode # NoExit) =>
        /\ FailureReported
        /\ exitCode \in {0, 1}
        /\ exitCode = 1 <=> ErrorLines # <<>>
        /\ (exitCode = 1 /\ FailedCalls = {}) =>
              LET text == ErrorLines[1].text
              IN  \/ argv.cmd = "create" /\ argv.type = "limit" /\ argv.price = None
                     /\ Contains(text, "Price is required for limit orders")
                  \/ argv.cmd = "close" /\ Contains(text, "No open position found for ")
                     /\ Len(Calls) = 2
                  \/ argv.cmd = "close" /\ text = <<"Error: ">>
                     /\ log[Len(log) - 1].ev = "prompt"

C4_Witness ==
    /\ pc = "done" /\ argv.cmd = "close"
    /\ exitCode = 1
    /\ Len(Calls) = 2
    /\ FailedCalls = {}

\* the lines close shows for a position
ShownFor(pos) ==
    { <<"Symbol: ", pos.symbol>>,
      <<"Side: ", pos.side>>,
      <<"Contracts: ", ToString(pos.contracts)>>,
      <<"Unrealized PnL: ", Fixed(IF pos.unrealizedPnl = None THEN 0
                                  ELSE pos.unrealizedPnl[1], 2)>> }

\* C5: in the close command an order is submitted only after the position's
\* symbol, side, contract size and unrealized P&L were shown and, without the
\* confirm flag, after the user answered yes to the prompt; if the user
\* declines, no order is submitted, "Cancelled." is printed and the exit code
\* is 0.
C5_ConfirmBeforeSubmit ==
    argv.cmd = "close" =>
        /\ \A i \in DOMAIN log :
              IsCall(log[i], "create_order") =>
                /\ position # None
                /\ position[1].symbol = argv.symbol
                /\ \A line \in ShownFor(position[1]) :
                      \E j \in 1..(i - 1) : log[j] = Out(line)
                /\ \/ argv.confirm
                   \/ \E j \in 1..(i - 1) : log[j].ev = "prompt" /\ log[j].answer = "yes"
        /\ \A j \in DOMAIN log :
              (log[j].ev = "prompt" /\ log[j].answer = "no") =>
                /\ ~argv.confirm
                /\ OrdersSubmitted = <<>>
                /\ j = Len(log) - 1
                /\ log[Len(log)] = Out(<<"Cancelled.">>)
                /\ pc = "done"
                /\ exitCode = 0

C5_Witness ==
    /\ argv.cmd = "close" /\ ~argv.confirm
    /\ OrdersSubmitted # <<>>
    /\ \E j \in DOMAIN log : log[j].ev = "prompt" /\ log[j].answer = "yes"
    /\ position[1].unrealizedPnl = None

\* the connector's answer holds no nonzero position of the symbol
NoOpenPositionFor(positions, symbol) ==
    \A i \in DOMAIN positions :
        positions[i].symbol # symbol \/ positions[i].contracts = 0

\* C6: when the list close fetched holds no nonzero-size position of the
\* requested symbol, the command's next and last step prints "No open
\* position found for <symbol>" and exits 0, with no prompt and no order;
\* nothing happens after a command has ended.
C6_NoPositionIsNotAnError ==
    [][ /\ pc # "done"
        /\ (pc = "fetched" /\ NoOpenPositionFor(ret.got[1], argv.symbol)) =>
              /\ pc' = "done"
              /\ exitCode' = 0
              /\ log' = Append(log, Out(<<"No open position found for ", argv.symbol>>))
              /\ \A i \in DOMAIN log' :
                    log'[i].ev # "prompt" /\ ~IsCall(log'[i], "create_order")
      ]_vars

C6_Witness ==
    /\ argv.cmd = "close" /\ pc = "done" /\ exitCode = 0
    /\ log[Len(log)] = Out(<<"No open position found for ", argv.symbol>>)
    /\ Len(ret.got[1]) = 2
    /\ ret.got[1][1].symbol = argv.symbol /\ ret.got[1][1].contracts = 0
    /\ ret.got[1][2].symbol # argv.symbol /\ ret.got[1][2].contracts # 0

\* C7 as stated: the create command never calls the connector's create_order
\* with an amount <= 0 or a price <= 0.
C7_CreateRangeChecks ==
    argv.cmd = "create" =>
        \A i \in DOMAIN log :
            IsCall(log[i], "create_order") =>
                /\ log[i].args.amount > 0
                /\ log[i].args.price = None \/ log[i].args.price[1] > 0

\* C8 as stated: an error raised by the client is of the connector-failure
\* kind (RuntimeError, the spec's ExchangeOperationFailed) only when a
\* connector call failed; a failure the client found itself (missing limit
\* price, no position to close) keeps its own kind (ValueError, the spec's
\* InvalidInput / NotFound).
C8_LocalFailuresKeepKind ==
    (pc = "done" /\ ret.exc # None) =>
        (ret.exc[1].kind = "RuntimeError" <=> FailedCalls # {})

\* C9: list_orders makes exactly one connector call, fetch_open_orders for
\* status open, fetch_closed_orders for closed, fetch_orders for all, passes
\* the symbol (or its absence) through and returns the connector's answer as
\* it is.
C9_ListOrdersSelectsByStatus ==
    (argv.cmd = "orders" /\ pc = "done") =>
        /\ Len(Calls) = 1
        /\ argv.status = "open" => Calls[1].method = "fetch_open_orders"
        /\ argv.status = "closed" => Calls[1].method = "fetch_closed_orders"
        /\ argv.status = "all" => Calls[1].method = "fetch_orders"
        /\ Calls[1].args.symbol = argv.symbol
        /\ Calls[1].ok => ret.exc = None /\ ret.val = Some(ret.got[1])

C9_Witness ==
    /\ argv.cmd = "orders" /\ pc = "done"
    /\ argv.status = "closed" /\ argv.symbol = None
    /\ ret.val # None
    /\ Len(ret.val[1]) = 2
    /\ ret.val[1][1] # ret.val[1][2]
    /\ Calls[1].method = "fetch_closed_orders"

\* a market passes the filters the command line asks for
Passes(m) ==
    /\ argv.active => (IF m.active = None THEN TRUE ELSE m.active[1])
    /\ argv.type # None => m.type = argv.type
    /\ argv.quote # None => m.quote = argv.quote

\* the index in `all` of the k-th market that passes
KthPassing(all, k) ==
    CHOOSE i \in DOMAIN all :
        /\ Passes(all[i])
        /\ Cardinality({ j \in 1..i : Passes(all[j]) }) = k

\* C10: with N markets passing the active, type and quote filters together,
\* the markets command in table mode shows the first min(N, 50) of them in
\* order and prints the remainder notice, stating N - 50, exactly when
\* N > 50; in json mode it outputs all N; with N = 0 it prints "No markets
\* found matching the criteria."; it exits 0.
C10_MarketsTableCap ==
    (argv.cmd = "markets" /\ pc = "done" /\ ret.exc = None) =>
        LET all == ret.got[1]
            N == Cardinality({ i \in DOMAIN all : Passes(all[i]) })
            notice == Out(<<"\n... and ", ToString(N - 50), " more markets">>)
        IN  /\ exitCode = 0
            /\ IF N = 0
               THEN log = <<log[1], Out(<<"No markets found matching the criteria.">>)>>
               ELSE IF argv.format = "json"
               THEN /\ Len(log) = 2
                    /\ log[2].ev = "json"
                    /\ Len(log[2].data) = N
                    /\ \A k \in 1..N : log[2].data[k] = all[KthPassing(all, k)]
               ELSE /\ log[2].ev = "table"
                    /\ Len(log[2].rows) = (IF N < 50 THEN N ELSE 50)
                    /\ \A k \in DOMAIN log[2].rows :
                          log[2].rows[k][1] = all[KthPassing(all, k)].symbol
                    /\ IF N > 50 THEN Len(log) = 3 /\ log[3] = notice
                       ELSE Len(log) = 2

C10_Witness ==
    /\ argv.cmd = "markets" /\ pc = "done" /\ ret.exc = None
    /\ argv.format = "table" /\ argv.active /\ argv.type # None /\ argv.quote # None
    /\ Len(log) = 3
    /\ Len(log[2].rows) = 50
    /\ log[3] = Out(<<"\n... and ", "2", " more markets">>)

\* C11 as stated: every order the close command submits is the counter-order
\* of the position it showed to the user: its side is the inverse of the
\* shown side and its amount is the absolute value of the shown contract
\* size, hence nonzero, whatever close_position's own fetch answers.
C11_OrderMatchesShownPosition ==
    argv.cmd = "close" =>
        \A i \in DOMAIN log :
            IsCall(log[i], "create_order") =>
                /\ position # None
                /\ position[1].side = "long" => log[i].args.side = "sell"
                /\ position[1].side = "short" => log[i].args.side = "buy"
                /\ log[i].args.amount # 0
                /\ log[i].args.amount * log[i].args.amount
                     = position[1].contracts * position[1].contracts

====
